---- MODULE Spec2Model ----
(***************************************************************************)
(* Stream copy page of nats-admin-web: handleCopy / handleAbort of         *)
(* src/app/(dashboard)/stream-copy/page.tsx and graphqlRequest of          *)
(* src/lib/graphql-client.ts.                                              *)
(*                                                                         *)
(* JavaScript runs one continuation at a time: the code between two        *)
(* awaits is one atomic action.  handleCopy suspends at the fetch          *)
(* (line 188) and at every publish (line 218); while it is suspended the   *)
(* server may answer and the operator may click Abort.                     *)
(*                                                                         *)
(* Strings the code parses or trims (maxMessages, subjectFilter) are       *)
(* sequences of one-character strings; the others are TLA+ strings.        *)
(***************************************************************************)
EXTENDS Integers, Sequences, FiniteSets, TLC

(* ---------------------------- bounds ----------------------------------- *)

\* Number of messages held by the source stream: the longest batch a fetch returns.
MaxBatch == 3

\* A new run is started only while the log id counter is below this value.
MaxLogId == 5

(* ------------------------ program constants ---------------------------- *)

\* parseInt(maxMessages) || 100
DefaultLimit == 100

\* copied % 10 === 0
ProgressEvery == 10

\* useState<string | null>(null)
Null == "<null>"

MsgSelectBoth == "Select both source and target streams"
MsgMustDiffer == "Source and target streams must be different"
MsgNoData == "No data returned from API"

(* --------------------------- input sets -------------------------------- *)

\* The form values handleCopy is called with: source and target stream ("" is
\* the unselected value), subject filter and max-messages text.
FormValues(src, tgt, flt, mm) ==
  [source |-> src, target |-> tgt, filter |-> flt, max |-> mm]

CopyRequests ==
  { FormValues("", "", <<>>, <<"1", "0", "0">>),
    FormValues("", "B", <<>>, <<"2">>),
    FormValues("A", "", <<" ">>, <<"0">>),
    FormValues("A", "A", <<>>, <<"1", "0", "0">>),
    FormValues("B", "B", <<>>, <<"-", "2">>),
    FormValues("A", "B", <<>>, <<"1", "0", "0">>),
    FormValues("A", "B", <<>>, <<>>),
    FormValues("A", "B", <<" ">>, <<"0">>),
    FormValues("B", "A", <<" ", "a", ".", ">">>, <<"-", "2">>),
    FormValues("A", "B", <<"a", ".", ">">>, <<"2">>),
    FormValues("B", "A", <<>>, <<"1", ".", "5">>) }

\* The messages of the source stream, oldest first.
SourceMessages ==
  [i \in 1..MaxBatch |->
     [sequence |-> 9 + i,
      subject  |-> IF i % 2 = 1 THEN "orders.a" ELSE "orders.b",
      data     |-> IF i = 1 THEN "p1" ELSE IF i = 2 THEN "p2" ELSE "p3"]]

\* The last n messages of the source stream, in stream order.
LastN(n) == SubSeq(SourceMessages, MaxBatch - n + 1, MaxBatch)

Min(a, b) == IF a <= b THEN a ELSE b

(* ------------------------- pure functions ------------------------------ *)

WhiteSpace == {" ", "\t", "\n"}

DigitChars == <<"0", "1", "2", "3", "4", "5", "6", "7", "8", "9">>

IsDigit(c) == \E d \in 1..10 : DigitChars[d] = c

DigitVal(c) == (CHOOSE d \in 1..10 : DigitChars[d] = c) - 1

RECURSIVE TrimStart(_)
TrimStart(s) ==
  IF s # <<>> /\ Head(s) \in WhiteSpace THEN TrimStart(Tail(s)) ELSE s

RECURSIVE TrimEnd(_)
TrimEnd(s) ==
  IF s # <<>> /\ s[Len(s)] \in WhiteSpace
  THEN TrimEnd(SubSeq(s, 1, Len(s) - 1))
  ELSE s

\* String.prototype.trim
Trim(s) == TrimEnd(TrimStart(s))

\* The value of the longest prefix of decimal digits of s, after acc.
RECURSIVE DigitsValue(_, _)
DigitsValue(s, acc) ==
  IF s # <<>> /\ IsDigit(Head(s))
  THEN DigitsValue(Tail(s), 10 * acc + DigitVal(Head(s)))
  ELSE acc

\* parseInt(s) on decimal input: leading white space is skipped, an optional
\* sign is read, then digits up to the first other character; NaN when no
\* digit follows.
ParseInt(s) ==
  LET t    == TrimStart(s)
      neg  == t # <<>> /\ Head(t) = "-"
      body == IF t # <<>> /\ Head(t) \in {"-", "+"} THEN Tail(t) ELSE t
  IN  IF body = <<>> \/ ~IsDigit(Head(body))
      THEN [nan |-> TRUE, val |-> 0]
      ELSE [nan |-> FALSE,
            val |-> IF neg THEN 0 - DigitsValue(body, 0) ELSE DigitsValue(body, 0)]

\* Limit without the || 100 fallback (NaN is sent as no number at all: 0).
LimitNoFallback(mm) == ParseInt(mm).val

\* const limit = parseInt(maxMessages) || 100   (NaN and 0 are falsy)
Limit(mm) ==
  LET p == ParseInt(mm)
  IN  IF p.nan \/ p.val = 0 THEN DefaultLimit ELSE p.val

\* ValidationError without the second early return.
ValidationErrorNoDiffer(src, tgt) ==
  IF src = "" \/ tgt = "" THEN MsgSelectBoth ELSE Null

\* The two early returns of handleCopy: the message shown, or Null when the
\* request passes.
ValidationError(src, tgt) ==
  IF src = "" \/ tgt = "" THEN MsgSelectBoth
  ELSE IF src = tgt THEN MsgMustDiffer
  ELSE Null

(* --------------------------- the network ------------------------------- *)

NoMessages == <<>>

\* What the transport can deliver for one request: a rejected fetch(), or a
\* JSON body with optional data and optional errors.
Rejected == [kind |-> "reject", hasData |-> FALSE, streamMessages |-> NoMessages,
             errors |-> <<>>]

JsonBody(hasData, batch, errs) ==
  [kind |-> "json", hasData |-> hasData, streamMessages |-> batch, errors |-> errs]

ErrorLists == {<<>>, <<"nats: timeout">>}

\* graphqlRequest returning data whenever it is present, errors or not.
GraphqlRequestDataFirst(resp) ==
  IF resp.kind = "reject"
  THEN [threw |-> TRUE, message |-> "Failed to fetch", data |-> NoMessages]
  ELSE IF resp.hasData
  THEN [threw |-> FALSE, message |-> "", data |-> resp.streamMessages]
  ELSE IF Len(resp.errors) > 0
  THEN [threw |-> TRUE, message |-> resp.errors[1], data |-> NoMessages]
  ELSE [threw |-> TRUE, message |-> MsgNoData, data |-> NoMessages]

\* graphqlRequest: throws the first error of a non-empty errors list, throws
\* when data is absent, and returns data otherwise.  A rejected fetch() throws
\* its own error.
GraphqlRequest(resp) ==
  IF resp.kind = "reject"
  THEN [threw |-> TRUE, message |-> "Failed to fetch", data |-> NoMessages]
  ELSE IF Len(resp.errors) > 0
  THEN [threw |-> TRUE, message |-> resp.errors[1], data |-> NoMessages]
  ELSE IF ~resp.hasData
  THEN [threw |-> TRUE, message |-> MsgNoData, data |-> NoMessages]
  ELSE [threw |-> FALSE, message |-> "", data |-> resp.streamMessages]

(* ------------------------------ state ---------------------------------- *)

\* copying, progress, logs, done, error: the React state of lines 93-97.
\* abortRef, logIdRef: the refs of lines 99-100.
\* pc: where handleCopy is ("idle": not running, "fetch": suspended at line
\*   188, "publish": suspended at line 218); messages, idx, copied, errors:
\*   its locals (idx is the number of the message being published).
\* requests, replies: the graphqlRequest calls of the current run, in issue
\*   order, and the answer to each (NoReply while it is in flight).
\* form: the form values (lines 87-90) captured by the latest call of
\*   handleCopy that passed validation.
\* raisedAt: history of the run's first Abort click (see HandleAbort).
\* stale: history, the value abortRef had when the current run started.
VARIABLES
  copying, progress, logs, done, error,
  abortRef, logIdRef,
  pc, messages, idx, copied, errors,
  requests, replies,
  form,
  raisedAt, stale

uiVars   == <<copying, progress, logs, done, error>>
refVars  == <<abortRef, logIdRef>>
runVars  == <<pc, messages, idx, copied, errors>>
netVars  == <<requests, replies>>
histVars == <<raisedAt, stale>>
vars     == <<uiVars, refVars, runVars, netVars, form, histVars>>


(* ------------------------------ helpers -------------------------------- *)

\* A request that has not been answered yet.
NoReply == [kind |-> "none", hasData |-> FALSE, streamMessages |-> NoMessages,
            errors |-> <<>>]

\* The ids of the requests the server has not answered yet.
Unanswered == {id \in 1..Len(requests) : replies[id].kind = "none"}

\* The requests of the current run that are publishes.
PublishIds == {id \in 1..Len(requests) : requests[id].op = "publish"}

FetchIds == {id \in 1..Len(requests) : requests[id].op = "fetch"}

\* FetchRequest that passes the filter as typed.
FetchRequestUntrimmed(src, limit, flt) ==
  [op |-> "fetch", stream |-> src, last |-> limit,
   hasSubject |-> flt # <<>>, filter |-> flt,
   subject |-> "", data |-> ""]

\* variables of MESSAGES_QUERY: stream, last, and subject only when the
\* trimmed filter is non-empty.
FetchRequest(src, limit, flt) ==
  [op |-> "fetch", stream |-> src, last |-> limit,
   hasSubject |-> Trim(flt) # <<>>, filter |-> Trim(flt),
   subject |-> "", data |-> ""]

\* PublishRequest that sends the subject in place of the payload.
PublishRequestSubjectAsData(msg) ==
  [op |-> "publish", stream |-> "", last |-> 0,
   hasSubject |-> FALSE, filter |-> <<>>,
   subject |-> msg.subject, data |-> msg.subject]

\* variables of PUBLISH_MUTATION: the subject and the data of the message.
\* The mutation has no stream variable.
PublishRequest(msg) ==
  [op |-> "publish", stream |-> "", last |-> 0,
   hasSubject |-> FALSE, filter |-> <<>>,
   subject |-> msg.subject, data |-> msg.data]

\* The text of a log entry: the template used and the values it interpolates.
Text(kind, n1, n2, s, cause, txt) ==
  [kind |-> kind, n1 |-> n1, n2 |-> n2, s |-> s, cause |-> cause, txt |-> txt]

TextFetching(limit, src, flt) == Text("fetching", limit, 0, src, "", flt)
TextNoMessages == Text("noMessages", 0, 0, "", "", <<>>)
TextFound(n) == Text("found", n, 0, "", "", <<>>)
TextAborted == Text("aborted", 0, 0, "", "", <<>>)
TextCopied(c, n) == Text("copied", c, n, "", "", <<>>)
TextFailed(msg, cause) == Text("failed", msg.sequence, 0, msg.subject, cause, <<>>)
TextDone(c, e) == Text("done", c, e, "", "", <<>>)
TextError(cause) == Text("error", 0, 0, "", cause, <<>>)

\* The expressions each log template interpolates.
TemplateValues(kind) ==
  IF kind = "fetching" THEN {"limit", "sourceStream", "subjectFilter"}
  ELSE IF kind = "found" THEN {"messages.length"}
  ELSE IF kind = "copied" THEN {"copied", "messages.length"}
  ELSE IF kind = "failed" THEN {"msg.sequence", "msg.subject", "err.message"}
  ELSE IF kind = "done" THEN {"copied", "errors"}
  ELSE IF kind = "error" THEN {"errMsg"}
  ELSE {}

\* The log and the id counter, threaded through the addLog calls of one
\* continuation.
LogState == [logs |-> logs, next |-> logIdRef]

\* AddLog that leaves the id counter as it was.
AddLogSameId(L, type, message) ==
  [logs |-> Append(L.logs, [id |-> L.next, type |-> type, message |-> message]),
   next |-> L.next]

\* addLog: the entry takes the current id, the counter is incremented, and
\* the entry is appended.
AddLog(L, type, message) ==
  [logs |-> Append(L.logs, [id |-> L.next, type |-> type, message |-> message]),
   next |-> L.next + 1]

\* The copy state and the abort flag, as handleCopy finds them.
CopyState ==
  [copying |-> copying, done |-> done, error |-> error, logs |-> logs,
   progress |-> progress, abortRef |-> abortRef]

\* ResetState without abortRef.current = false.
ResetStateKeepsAbort(cur) ==
  [copying |-> TRUE, done |-> FALSE, error |-> Null, logs |-> <<>>,
   progress |-> [total |-> 0, copied |-> 0, errors |-> 0],
   abortRef |-> cur.abortRef]

\* ResetState without setCopying(true).
ResetStateNotBusy(cur) ==
  [copying |-> cur.copying, done |-> FALSE, error |-> Null, logs |-> <<>>,
   progress |-> [total |-> 0, copied |-> 0, errors |-> 0],
   abortRef |-> FALSE]

\* ResetState without setLogs([]).
ResetStateKeepsLogs(cur) ==
  [copying |-> TRUE, done |-> FALSE, error |-> Null, logs |-> cur.logs,
   progress |-> [total |-> 0, copied |-> 0, errors |-> 0],
   abortRef |-> FALSE]

\* Lines 166-171: the state a validated run starts from.
ResetState(cur) ==
  [copying |-> TRUE, done |-> FALSE, error |-> Null, logs |-> <<>>,
   progress |-> [total |-> 0, copied |-> 0, errors |-> 0],
   abortRef |-> FALSE]

\* if (messages.length === 0) never taken.
NoMessagesFoundNever(msgs) == FALSE

\* if (messages.length === 0)
NoMessagesFound(msgs) == Len(msgs) = 0

\* InitialProgress with the total taken from the default limit.
InitialProgressFromLimit(msgs) ==
  [total |-> DefaultLimit, copied |-> 0, errors |-> 0]

\* setProgress({ total: messages.length, copied: 0, errors: 0 })
InitialProgress(msgs) == [total |-> Len(msgs), copied |-> 0, errors |-> 0]

\* LoopExhausted that leaves the last message out.
LoopExhaustedEarly(i, msgs) == i + 1 >= Len(msgs)

\* for (const msg of messages): the loop ends after the last message.
LoopExhausted(i, msgs) == i >= Len(msgs)

\* NextMessage iterating from the end of the batch.
NextMessageReversed(i, msgs) == msgs[Len(msgs) - i]

\* for (const msg of messages): the message of the iteration that follows i
\* processed messages.
NextMessage(i, msgs) == msgs[i + 1]

\* AbortObserved that never reads the flag.
AbortObservedNever(flag) == FALSE

\* if (abortRef.current): the flag read at the top of an iteration.
AbortObserved(flag) == flag

\* copied % 10 === 0 || copied === messages.length
LogsProgress(c, msgs) == c % ProgressEvery = 0 \/ c = Len(msgs)


(* --------------------------- the server -------------------------------- *)

\* The longest batch the server returns for a limit; what it does with a
\* non-positive limit is not known to this code, so any batch is allowed.
BatchCap(last) == IF last > 0 THEN Min(last, MaxBatch) ELSE MaxBatch

\* The answers the transport can deliver for a request.
Answers(req) ==
  IF req.op = "fetch"
  THEN {Rejected}
       \cup {JsonBody(FALSE, NoMessages, errs) : errs \in ErrorLists}
       \cup {JsonBody(TRUE, LastN(n), errs) :
               n \in 0..BatchCap(req.last), errs \in ErrorLists}
  ELSE {Rejected}
       \cup {JsonBody(hd, NoMessages, errs) : hd \in BOOLEAN, errs \in ErrorLists}

\* The server (or the transport) answers a request that is in flight.
ServerReply ==
  /\ \E id \in Unanswered :
       \E resp \in Answers(requests[id]) :
         replies' = [replies EXCEPT ![id] = resp]
  /\ UNCHANGED <<uiVars, refVars, runVars, requests, form, histVars>>

(* ------------------------- handleCopy, step by step -------------------- *)

NotRaised == [raised |-> FALSE, k |-> 0, finished |-> FALSE]

Init ==
  /\ copying = FALSE
  /\ progress = [total |-> 0, copied |-> 0, errors |-> 0]
  /\ logs = <<>>
  /\ done = FALSE
  /\ error = Null
  /\ abortRef = FALSE
  /\ logIdRef = 0
  /\ pc = "idle"
  /\ messages = NoMessages
  /\ idx = 0
  /\ copied = 0
  /\ errors = 0
  /\ requests = <<>>
  /\ replies = <<>>
  /\ form = FormValues("", "", <<>>, <<"1", "0", "0">>)
  /\ raisedAt = NotRaised
  /\ stale = FALSE

\* Finish without the summary entry.
FinishNoSummary(L, c, e) ==
  /\ logs' = L.logs
  /\ logIdRef' = L.next
  /\ done' = TRUE
  /\ copying' = FALSE
  /\ pc' = "idle"
  /\ UNCHANGED <<requests, replies>>

\* Finish without the finally block.
FinishStaysBusy(L, c, e) ==
  LET L2 == AddLog(L, "success", TextDone(c, e))
  IN  /\ logs' = L2.logs
      /\ logIdRef' = L2.next
      /\ done' = TRUE
      /\ copying' = copying
      /\ pc' = "idle"
      /\ UNCHANGED <<requests, replies>>

\* Lines 238-242 and 249: the summary entry, setDone(true), and the finally
\* block's setCopying(false).
Finish(L, c, e) ==
  LET L2 == AddLog(L, "success", TextDone(c, e))
  IN  /\ logs' = L2.logs
      /\ logIdRef' = L2.next
      /\ done' = TRUE
      /\ copying' = FALSE
      /\ pc' = "idle"
      /\ UNCHANGED <<requests, replies>>

\* Loop that reads the abort flag before it tests for the end of the batch.
LoopAbortFirst(i, msgs, c, e, L, prog) ==
  /\ messages' = msgs
  /\ copied' = c
  /\ errors' = e
  /\ progress' = prog
  /\ IF AbortObserved(abortRef)
     THEN idx' = i /\ Finish(AddLog(L, "info", TextAborted), c, e)
     ELSE IF LoopExhausted(i, msgs)
     THEN idx' = i /\ Finish(L, c, e)
     ELSE /\ idx' = i + 1
          /\ requests' = Append(requests, PublishRequest(NextMessage(i, msgs)))
          /\ replies' = Append(replies, NoReply)
          /\ pc' = "publish"
          /\ logs' = L.logs
          /\ logIdRef' = L.next
          /\ UNCHANGED <<done, copying>>

\* Lines 211-221: the top of the iteration that follows i processed messages.
\* The loop either ends (exhausted, or abort observed) and falls through to
\* the summary, or issues the publish of message i+1 and suspends.
Loop(i, msgs, c, e, L, prog) ==
  /\ messages' = msgs
  /\ copied' = c
  /\ errors' = e
  /\ progress' = prog
  /\ IF LoopExhausted(i, msgs)
     THEN idx' = i /\ Finish(L, c, e)
     ELSE IF AbortObserved(abortRef)
     THEN idx' = i /\ Finish(AddLog(L, "info", TextAborted), c, e)
     ELSE /\ idx' = i + 1
          /\ requests' = Append(requests, PublishRequest(NextMessage(i, msgs)))
          /\ replies' = Append(replies, NoReply)
          /\ pc' = "publish"
          /\ logs' = L.logs
          /\ logIdRef' = L.next
          /\ UNCHANGED <<done, copying>>

\* Reject placed after the reset of the run state.
RejectAfterReset(msg) ==
  /\ error' = msg
  /\ done' = FALSE
  /\ logs' = <<>>
  /\ progress' = [total |-> 0, copied |-> 0, errors |-> 0]
  /\ abortRef' = FALSE
  /\ UNCHANGED <<copying, logIdRef, runVars, netVars, form, histVars>>

\* Lines 154-162: setError and return; nothing else is assigned.
Reject(msg) ==
  /\ error' = msg
  /\ UNCHANGED <<copying, progress, logs, done, refVars, runVars, netVars,
                 form, histVars>>

\* Lines 153-190: validation, reset of the run state, the first log entry and
\* the fetch request.  The Start button exists only while copying is false
\* (lines 421-429).  The form values the handler's closure captured
\* (sourceStream, targetStream, subjectFilter, maxMessages) are its inputs.
\* The handler is the entry point: it is also called with the form values
\* that the button's disabled attribute (line 424) would keep away from it,
\* which is what its own two checks are for.
HandleCopy(src, tgt, flt, mm) ==
  /\ ~copying
  /\ IF ValidationError(src, tgt) # Null
     THEN Reject(ValidationError(src, tgt))
     ELSE LET limit == Limit(mm)
              R == ResetState(CopyState)
              L == AddLog([logs |-> R.logs, next |-> logIdRef], "info",
                          TextFetching(limit, src, flt))
          IN  /\ logIdRef < MaxLogId
              /\ copying' = R.copying
              /\ done' = R.done
              /\ error' = R.error
              /\ logs' = L.logs
              /\ logIdRef' = L.next
              /\ progress' = R.progress
              /\ abortRef' = R.abortRef
              /\ form' = FormValues(src, tgt, flt, mm)
              /\ raisedAt' = NotRaised
              /\ stale' = abortRef
              /\ requests' = <<FetchRequest(src, limit, flt)>>
              /\ replies' = <<NoReply>>
              /\ pc' = "fetch"
              /\ messages' = NoMessages
              /\ idx' = 0
              /\ copied' = 0
              /\ errors' = 0

\* Lines 188-221 and 243-250: the continuation of the fetch.
FetchReturn ==
  /\ pc = "fetch"
  /\ replies[Len(requests)].kind # "none"
  /\ LET r == GraphqlRequest(replies[Len(requests)])
     IN  IF r.threw
         THEN LET L == AddLog(LogState, "error", TextError(r.message))
              IN  /\ error' = r.message
                  /\ logs' = L.logs
                  /\ logIdRef' = L.next
                  /\ copying' = FALSE
                  /\ pc' = "idle"
                  /\ UNCHANGED <<progress, done, messages, idx, copied, errors,
                                 netVars>>
         ELSE IF NoMessagesFound(r.data)
         THEN LET L == AddLog(LogState, "info", TextNoMessages)
              IN  /\ logs' = L.logs
                  /\ logIdRef' = L.next
                  /\ done' = TRUE
                  /\ copying' = FALSE
                  /\ pc' = "idle"
                  /\ UNCHANGED <<error, progress, messages, idx, copied, errors,
                                 netVars>>
         ELSE /\ Loop(0, r.data, 0, 0,
                      AddLog(LogState, "success", TextFound(Len(r.data))),
                      InitialProgress(r.data))
              /\ UNCHANGED error
  /\ UNCHANGED <<abortRef, form, histVars>>

\* OnPublishSuccess that rebuilds the progress instead of spreading prev.
OnPublishSuccessResetsErrors ==
  LET c2 == copied + 1
      L2 == IF LogsProgress(c2, messages)
            THEN AddLog(LogState, "info", TextCopied(c2, Len(messages)))
            ELSE LogState
  IN  /\ Loop(idx, messages, c2, errors, L2,
              [total |-> Len(messages), copied |-> c2, errors |-> 0])
      /\ UNCHANGED error

\* Lines 222-227: the publish resolved.
OnPublishSuccess ==
  LET c2 == copied + 1
      L2 == IF LogsProgress(c2, messages)
            THEN AddLog(LogState, "info", TextCopied(c2, Len(messages)))
            ELSE LogState
  IN  /\ Loop(idx, messages, c2, errors, L2, [progress EXCEPT !.copied = c2])
      /\ UNCHANGED error

\* OnPublishFailure without the inner try/catch: the error reaches the outer
\* catch of handleCopy.
OnPublishFailureEscapes(msg, cause) ==
  LET L2 == AddLog(LogState, "error", TextError(cause))
  IN  /\ error' = cause
      /\ logs' = L2.logs
      /\ logIdRef' = L2.next
      /\ copying' = FALSE
      /\ pc' = "idle"
      /\ UNCHANGED <<progress, done, messages, idx, copied, errors, netVars>>

\* OnPublishFailure that counts the error without logging it.
OnPublishFailureSilent(msg, cause) ==
  LET e2 == errors + 1
  IN  /\ Loop(idx, messages, copied, e2, LogState,
              [progress EXCEPT !.errors = e2])
      /\ UNCHANGED error

\* OnPublishFailure that publishes the failed message again.
OnPublishFailureRetries(msg, cause) ==
  LET e2 == errors + 1
      L2 == AddLog(LogState, "error", TextFailed(msg, cause))
  IN  /\ Loop(idx - 1, messages, copied, e2, L2,
              [progress EXCEPT !.errors = e2])
      /\ UNCHANGED error

\* Lines 228-235: the publish threw; the error is counted and logged and the
\* loop goes on.
OnPublishFailure(msg, cause) ==
  LET e2 == errors + 1
      L2 == AddLog(LogState, "error", TextFailed(msg, cause))
  IN  /\ Loop(idx, messages, copied, e2, L2, [progress EXCEPT !.errors = e2])
      /\ UNCHANGED error

\* Lines 218-236: the continuation of a publish, then the next iteration.
PublishReturn ==
  /\ pc = "publish"
  /\ replies[Len(requests)].kind # "none"
  /\ LET r == GraphqlRequest(replies[Len(requests)])
     IN  IF ~r.threw
         THEN OnPublishSuccess
         ELSE OnPublishFailure(NextMessage(idx - 1, messages), r.message)
  /\ UNCHANGED <<abortRef, form, histVars>>

\* HandleAbort that flips the flag.
HandleAbortToggles ==
  /\ copying
  /\ abortRef' = ~abortRef
  /\ raisedAt' = IF raisedAt.raised THEN raisedAt
                 ELSE [raised |-> TRUE, k |-> Cardinality(PublishIds),
                       finished |-> replies[Len(requests)].kind # "none"]
  /\ UNCHANGED <<uiVars, logIdRef, runVars, netVars, form, stale>>

\* HandleAbort that ends the run at once instead of raising the flag for the
\* loop to observe.
HandleAbortPreemptive ==
  /\ copying
  /\ abortRef' = TRUE
  /\ raisedAt' = IF raisedAt.raised THEN raisedAt
                 ELSE [raised |-> TRUE, k |-> Cardinality(PublishIds),
                       finished |-> replies[Len(requests)].kind # "none"]
  /\ copying' = FALSE
  /\ done' = TRUE
  /\ pc' = "idle"
  /\ UNCHANGED <<progress, logs, error, logIdRef, messages, idx, copied,
                 errors, netVars, form, stale>>

\* Lines 253-255.  The Abort button exists only while copying is true
\* (lines 430-438).  raisedAt records, for the first click of a run, how many
\* publishes had been issued and whether the latest request was answered.
HandleAbort ==
  /\ copying
  /\ abortRef' = TRUE
  /\ raisedAt' = IF raisedAt.raised THEN raisedAt
                 ELSE [raised |-> TRUE, k |-> Cardinality(PublishIds),
                       finished |-> replies[Len(requests)].kind # "none"]
  /\ UNCHANGED <<uiVars, logIdRef, runVars, netVars, form, stale>>

Next ==
  \/ \E f \in CopyRequests : HandleCopy(f.source, f.target, f.filter, f.max)
  \/ HandleAbort
  \/ ServerReply
  \/ FetchReturn
  \/ PublishReturn

Spec == Init /\ [][Next]_vars

\* The page with a server that answers every request and an event loop that
\* runs the continuation of every settled promise.
SpecFair ==
  /\ Init
  /\ [][Next]_vars
  /\ WF_vars(ServerReply)
  /\ WF_vars(FetchReturn)
  /\ WF_vars(PublishReturn)

\* The state of the run as the page shows it: the run is suspended on the
\* fetch or on a publish, or no run was started yet, or the last run ended:
\* with the error (done never set), after the loop observed the abort flag
\* (the 'aborted' log entry), or otherwise.
RunState ==
  IF pc = "fetch" THEN "Fetching"
  ELSE IF pc = "publish" THEN "Transferring"
  ELSE IF requests = <<>> THEN "Idle"
  ELSE IF ~done THEN "Failed"
  ELSE IF \E i \in 1..Len(logs) : logs[i].message.kind = "aborted"
  THEN "Cancelled"
  ELSE "Completed"

\* handleAbort called while no run is active (lines 253-255 have no guard of
\* their own; the page offers no button for this call).
AbortWhenIdle ==
  /\ ~copying
  /\ abortRef' = TRUE
  /\ UNCHANGED <<uiVars, logIdRef, runVars, netVars, form, histVars>>

NextAbortAnytime ==
  \/ Next
  \/ AbortWhenIdle

\* The page with handleAbort callable at any time.
SpecAbortAnytime == Init /\ [][NextAbortAnytime]_vars


(* ------------------------------ claims --------------------------------- *)

\* C1: in every state the displayed progress satisfies copied + errors <=
\* total, and once the fetch has returned a non-empty batch, total is the
\* number of messages the fetch returned.
C1_ProgressWithinTotal ==
  /\ progress.copied + progress.errors <= progress.total
  /\ (messages # NoMessages => progress.total = Len(replies[1].streamMessages))

C1_Witness ==
  /\ pc = "publish"
  /\ progress = [total |-> 3, copied |-> 1, errors |-> 1]

\* C2: when a run that entered the transfer phase has ended, either every
\* message is accounted for (copied + errors = total) or the cancellation
\* flag was set during the run.
C2_TerminalAccounting ==
  (pc = "idle" /\ progress.total > 0)
    => (progress.copied + progress.errors = progress.total \/ abortRef)

C2_Witness ==
  /\ pc = "idle"
  /\ done
  /\ ~abortRef
  /\ progress.total = 3
  /\ progress.copied + progress.errors = 3
  /\ progress.errors > 0

\* C3: a failed publish is local to its message.  No run that issued a
\* publish ends in the error state; after a failed publish that is not the
\* last one the next message is attempted unless cancellation was raised; and
\* a run without cancellation in which every publish failed ends done with
\* errors = total and copied = 0.
C3_PublishFailureIsLocal ==
  LET Failed(resp) ==
        resp.kind = "reject"
        \/ (resp.kind = "json" /\ (Len(resp.errors) > 0 \/ ~resp.hasData))
      Settled(id) == id < Len(requests) \/ pc = "idle"
  IN  /\ PublishIds # {} =>
           \A i \in 1..Len(logs) : logs[i].message.kind # "error"
      /\ \A id \in PublishIds :
           (Failed(replies[id]) /\ Settled(id) /\ id - 1 < Len(messages)
              /\ ~abortRef)
             => id + 1 \in PublishIds
      /\ (pc = "idle" /\ messages # NoMessages /\ ~abortRef
            /\ \A id \in PublishIds : Failed(replies[id]))
           => /\ done
              /\ ~copying
              /\ progress.errors = progress.total
              /\ progress.copied = 0
              /\ Cardinality(PublishIds) = progress.total

C3_Witness ==
  /\ pc = "idle"
  /\ done
  /\ ~abortRef
  /\ progress = [total |-> 3, copied |-> 0, errors |-> 3]

\* C4: publishes are issued in fetch order and one at a time: the j-th
\* publish carries the j-th fetched message, at most one publish is
\* unanswered, and exactly the publish the loop is suspended on has not been
\* counted yet.
C4_OnePublishAtATime ==
  /\ Cardinality(PublishIds \cap Unanswered) <= 1
  /\ Cardinality(PublishIds) - (progress.copied + progress.errors)
       = (IF pc = "publish" THEN 1 ELSE 0)
  /\ \A id \in PublishIds :
       /\ id >= 2
       /\ id - 1 <= Len(replies[1].streamMessages)
       /\ requests[id].subject = replies[1].streamMessages[id - 1].subject
       /\ requests[id].data = replies[1].streamMessages[id - 1].data

C4_Witness ==
  /\ pc = "publish"
  /\ Cardinality(PublishIds) = 2
  /\ progress.copied + progress.errors = 1

\* C5: if the cancellation flag is raised when k publishes have been issued
\* and the k-th has been answered (for k = 0: at any time of the run, the
\* fetch included), no further publish is issued and the run ends with
\* copied + errors = k.
C5_CancelStopsAtK ==
  (raisedAt.raised /\ (raisedAt.k = 0 \/ raisedAt.finished))
    => /\ Cardinality(PublishIds) = raisedAt.k
       /\ (pc = "idle" => progress.copied + progress.errors = raisedAt.k)

C5_Witness ==
  /\ pc = "idle"
  /\ raisedAt = [raised |-> TRUE, k |-> 1, finished |-> TRUE]
  /\ progress = [total |-> 3, copied |-> 1, errors |-> 0]

\* C6: a run whose loop observed the cancellation is not reported as a
\* completed one (done stays false).
C6_CancelledIsNotCompleted ==
  (pc = "idle" /\ \E i \in 1..Len(logs) : logs[i].message.kind = "aborted")
    => ~done

\* C7: a call of handleCopy with an empty source, an empty target, or a
\* source equal to the target sets the validation error and issues no network
\* request.
C7_InvalidConfigRejected ==
  [][\A f \in CopyRequests :
       ((f.source = "" \/ f.target = "" \/ f.source = f.target)
          /\ HandleCopy(f.source, f.target, f.filter, f.max))
         => /\ error' \in {MsgSelectBoth, MsgMustDiffer}
            /\ requests' = requests
            /\ replies' = replies
            /\ pc' = "idle"
            /\ ~copying']_vars

C7_Witness ==
  /\ error = MsgMustDiffer
  /\ pc = "idle"
  /\ requests = <<>>

\* C8: a call of handleCopy whose maxMessages parses to zero or to a negative
\* integer issues no fetch, and no fetch is ever issued with a limit <= 0.
C8_NonPositiveLimitRejected ==
  /\ [][\A f \in CopyRequests :
          (~ParseInt(f.max).nan /\ ParseInt(f.max).val <= 0
             /\ HandleCopy(f.source, f.target, f.filter, f.max))
            => requests' = requests]_vars
  /\ [](\A id \in FetchIds : requests[id].last > 0)

\* C9 as stated: after an empty fetch the run is done with zero progress, no
\* publish, and exactly one log entry.
C9_EmptyFetchOneLogEntry ==
  (pc = "idle" /\ requests # <<>>
     /\ replies[1].kind = "json" /\ replies[1].hasData
     /\ Len(replies[1].errors) = 0 /\ Len(replies[1].streamMessages) = 0)
    => /\ done
       /\ ~copying
       /\ progress = [total |-> 0, copied |-> 0, errors |-> 0]
       /\ PublishIds = {}
       /\ Len(logs) = 1

\* C9 amended: after an empty fetch the run is done with zero progress, no
\* publish, and exactly two log entries: the fetch announcement and one info
\* entry saying that no messages were found.
C9_EmptyFetchTwoLogEntries ==
  (pc = "idle" /\ requests # <<>>
     /\ replies[1].kind = "json" /\ replies[1].hasData
     /\ Len(replies[1].errors) = 0 /\ Len(replies[1].streamMessages) = 0)
    => /\ done
       /\ ~copying
       /\ progress = [total |-> 0, copied |-> 0, errors |-> 0]
       /\ PublishIds = {}
       /\ Len(logs) = 2
       /\ logs[1].message.kind = "fetching"
       /\ logs[2].type = "info"
       /\ logs[2].message = TextNoMessages

C9_Witness ==
  /\ pc = "idle"
  /\ done
  /\ Len(logs) = 2
  /\ logs[2].message = TextNoMessages
  /\ logIdRef = 4

\* C10: after a failed fetch the run has ended in the error state carrying
\* the fetch error: not done, not copying, zero progress, no publish, and the
\* error logged; the displayed error is that cause until a later rejected
\* start replaces it.
C10_FetchFailureEndsRun ==
  LET resp == replies[1]
      cause == IF resp.kind = "reject" THEN "Failed to fetch"
               ELSE IF Len(resp.errors) > 0 THEN resp.errors[1]
               ELSE MsgNoData
  IN  (pc = "idle" /\ requests # <<>>
         /\ (resp.kind = "reject"
               \/ (resp.kind = "json" /\ (Len(resp.errors) > 0 \/ ~resp.hasData))))
        => /\ ~done
           /\ ~copying
           /\ progress = [total |-> 0, copied |-> 0, errors |-> 0]
           /\ PublishIds = {}
           /\ Len(logs) = 2
           /\ logs[2].type = "error"
           /\ logs[2].message = TextError(cause)
           /\ error \in {cause, MsgSelectBoth, MsgMustDiffer}

C10_Witness ==
  /\ pc = "idle"
  /\ ~done
  /\ error = "nats: timeout"
  /\ Len(logs) = 2
  /\ replies[1].hasData


\* C11: every publish of the transfer phase is directed at the target stream
\* of the request.
C11_PublishGoesToTarget ==
  \A id \in PublishIds : requests[id].stream = form.target

\* C12: the j-th publish of a run carries exactly the subject and the payload
\* of the j-th fetched message, and the publishes issued are those of a prefix
\* of the fetched sequence.
C12_PublishesCopyThePrefix ==
  LET fetched == replies[1].streamMessages
      n == Cardinality(PublishIds)
  IN  PublishIds # {} =>
        /\ n <= Len(fetched)
        /\ PublishIds = {j + 1 : j \in 1..n}
        /\ \A j \in 1..n :
             <<requests[j + 1].subject, requests[j + 1].data>>
               = <<fetched[j].subject, fetched[j].data>>

C12_Witness ==
  /\ pc = "idle"
  /\ Cardinality(PublishIds) = 3
  /\ requests[4].data = "p3"
  /\ requests[2].data = "p1"

\* C13: in the transfer phase the error entries of the log are exactly the
\* entries of the failed publishes, one per failure, each naming the sequence
\* number and the subject of its message, so their number equals errors.
C13_OneErrorEntryPerFailure ==
  LET fetched == replies[1].streamMessages
      Failed(resp) ==
        resp.kind = "reject"
        \/ (resp.kind = "json" /\ (Len(resp.errors) > 0 \/ ~resp.hasData))
      Settled(id) == id < Len(requests) \/ pc = "idle"
      FailEntries == {i \in 1..Len(logs) : logs[i].message.kind = "failed"}
      EntriesOf(msg) ==
        {i \in FailEntries : /\ logs[i].message.n1 = msg.sequence
                             /\ logs[i].message.s = msg.subject}
  IN  messages # NoMessages =>
        /\ {i \in 1..Len(logs) : logs[i].type = "error"} = FailEntries
        /\ Cardinality(FailEntries) = progress.errors
        /\ \A id \in PublishIds :
             Settled(id) =>
               Cardinality(EntriesOf(fetched[id - 1]))
                 = (IF Failed(replies[id]) THEN 1 ELSE 0)

C13_Witness ==
  /\ pc = "idle"
  /\ done
  /\ progress = [total |-> 3, copied |-> 2, errors |-> 1]
  /\ Cardinality({i \in 1..Len(logs) : logs[i].type = "error"}) = 1
  /\ \E i \in 1..Len(logs) :
       /\ logs[i].message.kind = "failed"
       /\ logs[i].message.n1 = 11


\* C14 as stated: when the transfer loop has ended, the log holds exactly one
\* summary entry, it is the last entry, and it reports the final copied,
\* errors and total counts.
C14_SummaryReportsTotal ==
  LET Summaries == {i \in 1..Len(logs) : logs[i].message.kind = "done"}
  IN  (pc = "idle" /\ messages # NoMessages)
        => /\ Summaries = {Len(logs)}
           /\ logs[Len(logs)].message.n1 = progress.copied
           /\ logs[Len(logs)].message.n2 = progress.errors
           /\ {"copied", "errors", "messages.length"}
                \subseteq TemplateValues(logs[Len(logs)].message.kind)

\* C14 amended: when the transfer loop has ended, by exhaustion or by
\* cancellation, the log holds exactly one summary entry, it is the last
\* entry, and it reports the final copied and errors counts (not the total);
\* while the loop is running the log holds no summary entry.
C14_SummaryIsLast ==
  LET Summaries == {i \in 1..Len(logs) : logs[i].message.kind = "done"}
  IN  /\ (pc = "idle" /\ messages # NoMessages)
           => /\ Summaries = {Len(logs)}
              /\ logs[Len(logs)].type = "success"
              /\ logs[Len(logs)].message.n1 = progress.copied
              /\ logs[Len(logs)].message.n2 = progress.errors
      /\ pc # "idle" => Summaries = {}

C14_Witness ==
  /\ pc = "idle"
  /\ abortRef
  /\ progress = [total |-> 3, copied |-> 1, errors |-> 1]
  /\ logs[Len(logs)].message = TextDone(1, 1)
  /\ logs[Len(logs) - 1].message = TextAborted


\* C15: handleAbort called while no run is active changes nothing of the
\* copy state, the log or the run, and the flag it leaves behind does not
\* cancel the next run: a run sees the flag set, and logs an abort, only if
\* handleAbort was called during that run.  (A repeated call assigns true to
\* a flag that is true: it is a stuttering step.)
C15_AbortOutsideRunIsNoOp ==
  /\ [](copying /\ abortRef => raisedAt.raised)
  /\ []((\E i \in 1..Len(logs) : logs[i].message.kind = "aborted")
          => raisedAt.raised)
  /\ [][(~copying /\ ~abortRef /\ abortRef')
          => UNCHANGED <<uiVars, logIdRef, runVars, netVars>>]_vars

C15_Witness ==
  /\ stale
  /\ ~abortRef
  /\ pc = "idle"
  /\ done
  /\ progress.total = 3
  /\ progress.copied + progress.errors = 3


\* C16: while a run is fetching or transferring, the busy flag is set, so the
\* Start button is not there and no call of handleCopy can begin.
C16_OneRunAtATime ==
  pc # "idle" =>
    /\ copying
    /\ \A f \in CopyRequests :
         ~ENABLED HandleCopy(f.source, f.target, f.filter, f.max)

C16_Witness ==
  /\ pc = "publish"
  /\ copying
  /\ idx = 2
  /\ Unanswered # {}

\* C17: during a run every step extends the log (the earlier log is a prefix
\* of the later one), and the step that starts a validated run leaves a log
\* holding only that run's fetch announcement, with zeroed progress.
C17_LogAppendOnly ==
  [][/\ pc # "idle" =>
          /\ Len(logs') >= Len(logs)
          /\ SubSeq(logs', 1, Len(logs)) = logs
     /\ (pc = "idle" /\ pc' # "idle") =>
          /\ Len(logs') = 1
          /\ logs'[1].message.kind = "fetching"
          /\ logs'[1].id = logIdRef
          /\ progress' = [total |-> 0, copied |-> 0, errors |-> 0]]_vars

C17_Witness ==
  /\ pc = "fetch"
  /\ stale
  /\ Len(logs) = 1
  /\ logs[1].id = 4
  /\ progress = [total |-> 0, copied |-> 0, errors |-> 0]

\* C18: while the loop is suspended on a publish, no step changes total; the
\* continuation of the publish raises exactly one of copied and errors by
\* exactly one, and every other step leaves the progress as it is.
C18_ProgressMonotone ==
  [][pc = "publish" =>
       /\ progress'.total = progress.total
       /\ IF idx' # idx \/ pc' # pc
          THEN \/ /\ progress'.copied = progress.copied + 1
                  /\ progress'.errors = progress.errors
               \/ /\ progress'.copied = progress.copied
                  /\ progress'.errors = progress.errors + 1
          ELSE progress' = progress]_vars

C18_Witness ==
  /\ pc = "publish"
  /\ idx = 3
  /\ progress = [total |-> 3, copied |-> 1, errors |-> 1]


\* C19 as stated: the run state changes only along Idle -> Fetching ->
\* {Failed, Transferring} and Transferring -> {Completed, Cancelled} (a new
\* run leaving a terminal state for Fetching), and in a terminal state the
\* progress, the log and the outcome do not change.
C19_TransitionsAsStated ==
  [][/\ RunState' # RunState =>
          <<RunState, RunState'>> \in
            { <<"Idle", "Fetching">>,
              <<"Fetching", "Failed">>, <<"Fetching", "Transferring">>,
              <<"Transferring", "Completed">>, <<"Transferring", "Cancelled">>,
              <<"Failed", "Fetching">>, <<"Completed", "Fetching">>,
              <<"Cancelled", "Fetching">> }
     /\ (pc = "idle" /\ pc' = "idle") =>
          UNCHANGED <<progress, logs, done, copying>>]_vars

\* C19 amended: as stated, with two more transitions out of Fetching, both
\* taken by the continuation of the fetch: Fetching -> Completed when the
\* fetch returns no message, and Fetching -> Cancelled when the abort flag was
\* raised during the fetch.  In a terminal state the progress, the log, done
\* and copying do not change until handleCopy starts a new run.
C19_Transitions ==
  [][/\ RunState' # RunState =>
          <<RunState, RunState'>> \in
            { <<"Idle", "Fetching">>,
              <<"Fetching", "Failed">>, <<"Fetching", "Transferring">>,
              <<"Fetching", "Completed">>, <<"Fetching", "Cancelled">>,
              <<"Transferring", "Completed">>, <<"Transferring", "Cancelled">>,
              <<"Failed", "Fetching">>, <<"Completed", "Fetching">>,
              <<"Cancelled", "Fetching">> }
     /\ (pc = "idle" /\ pc' = "idle") =>
          UNCHANGED <<progress, logs, done, copying>>]_vars

C19_Witness ==
  /\ RunState = "Cancelled"
  /\ raisedAt.raised
  /\ PublishIds = {}
  /\ progress.total = 3

\* C20: a call of handleCopy that passes validation with a max-messages text
\* that does not parse as an integer starts the run and issues the fetch with
\* the default limit 100.
C20_UnparseableUsesDefault ==
  [][\A f \in CopyRequests :
       (/\ ParseInt(f.max).nan
        /\ f.source # "" /\ f.target # "" /\ f.source # f.target
        /\ HandleCopy(f.source, f.target, f.filter, f.max))
         => /\ pc' = "fetch"
            /\ copying'
            /\ error' = Null
            /\ Len(requests') = 1
            /\ requests'[1].op = "fetch"
            /\ requests'[1].last = DefaultLimit]_vars

C20_Witness ==
  /\ pc = "fetch"
  /\ ParseInt(form.max).nan
  /\ requests[1].last = 100
  /\ error = Null

\* The j-th publish of the run (request j + 1) resolved.
Succeeded(j) == ~GraphqlRequest(replies[j + 1]).threw

\* The number of publishes among the first j that resolved.
SuccessesUpTo(j) == Cardinality({i \in 1..j : Succeeded(i)})

\* The positions in the log of the entries of one kind.
EntriesOf(kind) == {i \in 1..Len(logs) : logs[i].message.kind = kind}

\* C21: if the cancellation flag is raised while the k-th publish is in
\* flight (issued and not yet answered), the run keeps waiting for that
\* publish, its outcome is counted (and logged when it failed), and no
\* further publish is issued: the run ends with copied + errors = k.
C21_InFlightPublishFinishes ==
  (raisedAt.raised /\ raisedAt.k >= 1 /\ ~raisedAt.finished)
    => /\ Cardinality(PublishIds) = raisedAt.k
       /\ (replies[raisedAt.k + 1].kind = "none" => pc = "publish")
       /\ (pc = "idle"
             => /\ copied + errors = raisedAt.k
                /\ progress.copied + progress.errors = raisedAt.k
                /\ copied = SuccessesUpTo(raisedAt.k)
                /\ (~Succeeded(raisedAt.k)
                      => \E i \in EntriesOf("failed") :
                           logs[i].message.n1 = messages[raisedAt.k].sequence))

C21_Witness ==
  /\ pc = "idle"
  /\ raisedAt = [raised |-> TRUE, k |-> 2, finished |-> FALSE]
  /\ progress = [total |-> 3, copied |-> 1, errors |-> 1]
  /\ ~Succeeded(2)
  /\ EntriesOf("aborted") # {}

\* C22: the log holds one progress entry for each resolved publish that is
\* the 10th, 20th, ... success of the run or that published the final
\* message of the batch, and no other progress entry.
C22_ProgressEntryOnFinalMessage ==
  messages # NoMessages
    => Cardinality(EntriesOf("copied"))
         = Cardinality({j \in 1..(copied + errors) :
                          /\ Succeeded(j)
                          /\ \/ SuccessesUpTo(j) % ProgressEvery = 0
                             \/ j = Len(messages)})

\* C23: within a run every publish request is for the next message not yet
\* published, so that no message is published twice and a failed publish is
\* not repeated; the number of publish requests never exceeds the number of
\* fetched messages.
C23_PublishAtMostOnce ==
  /\ [](Cardinality(PublishIds) <= Len(messages))
  /\ [][/\ (pc # "idle" => idx' >= idx)
        /\ (Cardinality(PublishIds') > Cardinality(PublishIds)
              => /\ Cardinality(PublishIds') = Cardinality(PublishIds) + 1
                 /\ idx' = idx + 1
                 /\ idx' <= Len(messages')
                 /\ requests'[Len(requests')]
                      = PublishRequest(messages'[idx']))]_vars

C23_Witness ==
  /\ pc = "idle"
  /\ Len(messages) = 3
  /\ Cardinality(PublishIds) = 3
  /\ ~Succeeded(1)
  /\ progress = [total |-> 3, copied |-> 2, errors |-> 1]

\* C24: the ids of the log entries strictly increase in log order and are
\* below the id counter; every step leaves the counter as it was or raises
\* it, and every entry it adds takes an id not below the counter's value
\* before the step, so that no id is repeated within a run or across runs.
C24_LogIdsIncrease ==
  /\ [](\A i \in 1..Len(logs) :
          /\ logs[i].id < logIdRef
          /\ (i > 1 => logs[i - 1].id < logs[i].id))
  /\ [][/\ logIdRef' >= logIdRef
        /\ \A i \in 1..Len(logs') :
             \/ (i <= Len(logs) /\ logs'[i] = logs[i])
             \/ logs'[i].id >= logIdRef]_vars

C24_Witness ==
  /\ pc = "idle"
  /\ Len(logs) = 2
  /\ logs[1].id = 2
  /\ logs[2].id = 3

\* C25: the cancellation flag goes from set to clear only in the step that
\* starts a validated run (the step that resets the run state and issues the
\* fetch), and goes from clear to set only while a run is active; a run never
\* starts with the flag set.
C25_FlagClearedOnlyAtRunStart ==
  [][/\ ((abortRef /\ ~abortRef')
           => (~copying /\ copying' /\ pc' = "fetch" /\ replies' = <<NoReply>>))
     /\ ((~abortRef /\ abortRef') => (copying /\ copying'))
     /\ ((~copying /\ copying') => ~abortRef')]_vars

C25_Witness ==
  /\ stale
  /\ ~abortRef
  /\ pc = "fetch"
  /\ replies = <<NoReply>>

\* C26: the fetch request carries a subject exactly when the filter field
\* holds a character that is not white space, and the subject it carries is
\* the field's text from its first to its last such character.
C26_SubjectFilterTrimmed ==
  requests # <<>>
    => LET f == form.filter
           NonBlank == {i \in 1..Len(f) : f[i] \notin WhiteSpace}
           first == CHOOSE i \in NonBlank : \A j \in NonBlank : i <= j
           last == CHOOSE i \in NonBlank : \A j \in NonBlank : j <= i
       IN  /\ requests[1].hasSubject <=> NonBlank # {}
           /\ (NonBlank # {} => requests[1].filter = SubSeq(f, first, last))

C26_Witness ==
  /\ pc = "fetch"
  /\ form.filter = <<" ", "a", ".", ">">>
  /\ requests[1].hasSubject
  /\ requests[1].filter = <<"a", ".", ">">>

\* C27: a call of handleCopy with an empty source, an empty target, or a
\* source equal to the target leaves copying, done, progress, the log, the
\* cancellation flag and the id counter as they were.
C27_RejectedStartFrame ==
  [][\A f \in CopyRequests :
       ((f.source = "" \/ f.target = "" \/ f.source = f.target)
          /\ HandleCopy(f.source, f.target, f.filter, f.max))
         => UNCHANGED <<copying, done, progress, logs, abortRef,
                        logIdRef>>]_vars

C27_Witness ==
  /\ pc = "idle"
  /\ error = MsgMustDiffer
  /\ done
  /\ abortRef
  /\ progress = [total |-> 3, copied |-> 1, errors |-> 0]
  /\ Len(logs) >= 4

\* C28: if every request is answered and every continuation runs, a run
\* that was started ends; copying is true while the run is suspended on the
\* fetch or on a publish, and false once the run has ended, however it ended.
C28_RunTerminates ==
  /\ [](pc \in {"fetch", "publish"} => copying)
  /\ [](pc = "idle" => ~copying)
  /\ (pc # "idle") ~> (pc = "idle")

C28_Witness ==
  /\ pc = "idle"
  /\ ~copying
  /\ RunState = "Cancelled"
  /\ progress = [total |-> 3, copied |-> 0, errors |-> 2]

\* C29: if the cancellation flag is first raised after the publish of the
\* last fetched message was issued, the run ends as a completed one: every
\* message is accounted for, done is set, and the log has no 'aborted' entry
\* and ends with the summary.
C29_AbortDuringLastPublishUnobserved ==
  (pc = "idle" /\ raisedAt.raised /\ raisedAt.k >= 1
     /\ raisedAt.k = Len(messages))
    => /\ copied + errors = Len(messages)
       /\ progress.copied + progress.errors = progress.total
       /\ done
       /\ EntriesOf("aborted") = {}
       /\ logs[Len(logs)].message = TextDone(copied, errors)
       /\ RunState = "Completed"

C29_Witness ==
  /\ pc = "idle"
  /\ abortRef
  /\ raisedAt = [raised |-> TRUE, k |-> 3, finished |-> FALSE]
  /\ progress = [total |-> 3, copied |-> 2, errors |-> 1]
  /\ RunState = "Completed"

\* C30: a request counts as failed exactly when the transport rejected it,
\* or the body carries a non-empty errors list (whether or not data is
\* present), or the body has no data.  The fetched batch is used only when the
\* fetch body has data and no errors; a fetch answered otherwise ends the run
\* without a publish; each settled publish is counted in errors when its
\* answer fails in this sense and in copied otherwise, and a failure that
\* carries an errors list is logged with the first error of the list.
C30_ErrorsTakePrecedence ==
  LET Fails(resp) ==
        resp.kind = "reject" \/ Len(resp.errors) > 0 \/ ~resp.hasData
      Settled == 1..(copied + errors)
  IN  /\ messages # NoMessages
           => /\ ~Fails(replies[1])
              /\ messages = replies[1].streamMessages
      /\ (requests # <<>> /\ pc # "fetch" /\ Fails(replies[1]))
           => (PublishIds = {} /\ pc = "idle" /\ ~done)
      /\ errors = Cardinality({j \in Settled : Fails(replies[j + 1])})
      /\ copied = Cardinality({j \in Settled : ~Fails(replies[j + 1])})
      /\ progress.errors = errors
      /\ \A j \in Settled :
           (replies[j + 1].kind = "json" /\ Len(replies[j + 1].errors) > 0)
             => \E i \in EntriesOf("failed") :
                  /\ logs[i].message.n1 = messages[j].sequence
                  /\ logs[i].message.cause = replies[j + 1].errors[1]

C30_Witness ==
  /\ pc = "idle"
  /\ Len(requests) = 2
  /\ replies[2].kind = "json"
  /\ replies[2].hasData
  /\ Len(replies[2].errors) > 0
  /\ progress = [total |-> 1, copied |-> 0, errors |-> 1]

====
